---- MODULE Spec2Model ----
(***************************************************************************)
(* Orchestration state machine of the Cerina Protocol Foundry backend:     *)
(* the ProtocolState blackboard (state/protocol_state.py), the rule-based  *)
(* supervisor (agents/supervisor.py), the LangGraph nodes and routers      *)
(* (graph/nodes.py, graph/edges.py, graph/workflow.py) and the REST        *)
(* control plane (api/routes.py, api/dependencies.py), for one thread;     *)
(* the event streamer (graph/streaming.py), the status read through the    *)
(* synchronous checkpointer (database.py) and a second run, on the same    *)
(* thread or on another one, each in a specification of its own.           *)
(*                                                                         *)
(* Graph execution follows LangGraph: a run started with an input begins   *)
(* at the entry point, the checkpoint is written after every node that     *)
(* returns, a node (or its conditional edge) that raises ends the run with *)
(* the exception and its writes are dropped, and a conditional edge whose  *)
(* result is not a key of its path map raises KeyError.                    *)
(*                                                                         *)
(* Scores are in tenths (7.5 is 75), the safety score in hundredths.       *)
(***************************************************************************)
EXTENDS Integers, Sequences, FiniteSets, TLC

VARIABLES
    st,        \* <<s>>: the ProtocolState of the running graph; <<>>: no run
    cp,        \* <<s>>: the thread's checkpoint; <<>>: thread never started
    pc,        \* next node of the run, or "idle" | "END" | "failed"
    ret,       \* the last response a control-plane call returned
    run,       \* trace of the latest run: kind, decisions, raiser
    rejects,   \* number of resume(reject) calls accepted so far
    events,    \* events stream_workflow_events has yielded for the run
    other      \* a second run: of another thread, or overlapping this one

vars == <<st, cp, pc, ret, run, rejects, events, other>>

----------------------------------------------------------------------------
(* Bounds of the model *)

\* resume(reject) calls explored per thread
MaxRejects == 1

\* largest iteration budget requested at start (schema allows 1..10)
MaxBudget == 5

\* safety flags the safety guardian reports per thread
MaxFlags == 1

\* empty drafts the drafter returns per thread
MaxEmptyDrafts == 1

\* safety flags per thread in the flag-history specification
MaxHistoryFlags == 2
MaxScoreFlags == 4
MaxScoreDrafts == 2

----------------------------------------------------------------------------
(* Program constants *)

\* settings.max_agent_iterations
max_agent_iterations == 5

\* SupervisorAgent.quality_threshold = 7.5, in tenths
quality_threshold == 75

\* Optional[int] = None
NoIteration == -1

\* config["recursion_limit"] of every ainvoke
recursion_limit == 50

\* iteration budgets a request may carry (GenerationRequest.max_iterations)
Budgets == {3, MaxBudget}

----------------------------------------------------------------------------
(* Worker outputs.  The workers are opaque: each call returns one of a     *)
(* small set of results, or raises.                                        *)

\* drafter: LLM response content (may be empty)
Contents == {"", "draft A"}

\* safety guardian: the texts of response.flags.  The severity is parsed
\* from the text, and the supervisor searches str(flag) for upper-case words.
FlagTexts ==
    { "HIGH risk: self-harm content",   \* upper-case HIGH
      "high risk of harm",              \* lower-case high
      "low concern: wording",           \* low
      "SAFETY_RATING: UNSAFE" }         \* _extract_flags, rating UNSAFE

\* "HIGH" in flag_text.upper()
UpperContainsHIGH(text) ==
    text \in {"HIGH risk: self-harm content", "high risk of harm"}

\* "LOW" in flag_text.upper()
UpperContainsLOW(text) == text \in {"low concern: wording"}

\* parsed_assessment["recommendations"]: the first one, if any, becomes the
\* recommendation of every flag of the check
Suggestions == {"add HIGH-visibility crisis line"}

\* "HIGH" in text (case-sensitive)
ContainsHIGH(text) ==
    text \in {"HIGH risk: self-harm content", "add HIGH-visibility crisis line"}

\* "UNSAFE" in text (case-sensitive)
ContainsUNSAFE(text) == text \in {"SAFETY_RATING: UNSAFE"}

\* response.flags and response.suggestions of one safety check
SafetyResponses ==
    {[flags |-> <<>>, suggestions |-> <<>>]}
        \cup {[flags |-> <<t>>, suggestions |-> <<>>] : t \in FlagTexts}
        \cup {[flags |-> <<"low concern: wording">>, suggestions |-> <<r>>] :
                 r \in Suggestions}

\* clinical critic: metadata overall_score (tenths) and recommendation
Feedbacks ==
    { [overall_score |-> 82, recommendation |-> "APPROVE"],
      [overall_score |-> 50, recommendation |-> "REQUEST_MINOR_REVISIONS"],
      [overall_score |-> 80, recommendation |-> "REQUEST_MAJOR_REVISIONS"] }

\* recommendation == "MAJOR"
IsExactlyMAJOR(recommendation) == recommendation = "MAJOR"

\* "MAJOR" in recommendation
ContainsMAJOR(recommendation) == recommendation = "REQUEST_MAJOR_REVISIONS"

\* request bodies of resume
EditedDrafts == {"", "edited draft"}
FeedbackTexts == {"", "add crisis line"}

----------------------------------------------------------------------------
(* ProtocolState and its methods (state/protocol_state.py) *)

\* ProtocolState(thread_id, user_intent, source, max_iterations, bypass_halt)
ProtocolState(budget, bypass) ==
    [ current_draft           |-> "",
      final_approved_draft    |-> "",
      draft_versions          |-> <<>>,
      iteration_count         |-> 0,
      max_iterations          |-> budget,
      sp_drafter_notes        |-> <<>>,
      sp_safety_flags         |-> <<>>,
      sp_safety_checks        |-> <<>>,
      sp_critic_feedback      |-> <<>>,
      sp_supervisor_decisions |-> <<>>,
      safety_flags            |-> <<>>,
      critic_feedbacks        |-> <<>>,
      supervisor_decisions    |-> <<>>,
      drafter_notes           |-> <<>>,
      safety_score            |-> 100,
      overall_quality_score   |-> 0,
      halted_at_iteration     |-> NoIteration,
      approval_status         |-> "pending",
      human_feedback          |-> "",
      human_edited_draft      |-> "",
      should_halt             |-> FALSE,
      needs_revision          |-> FALSE,
      is_finalized            |-> FALSE,
      bypass_halt             |-> bypass,
      errors                  |-> <<>> ]

\* SafetyFlag.model_config = {"use_enum_values": True}: the severity field
\* holds the enum's value, a plain str, not the SafetySeverity member.
StoredSeverity(severity) == [kind |-> "str", value |-> severity]

\* hasattr(x, 'value'): true of an enum member, false of a str
HasValueAttr(x) == x.kind = "enum"

\* a version record that is always numbered 1
add_draft_version_one(s, content) ==
    [s EXCEPT
        !.draft_versions = Append(@,
            [ version_number |-> 1,
              content        |-> content,
              iteration      |-> s.iteration_count ]),
        !.current_draft = content]

add_draft_version(s, content) ==
    [s EXCEPT
        !.draft_versions = Append(@,
            [ version_number |-> Len(s.draft_versions) + 1,
              content        |-> content,
              iteration      |-> s.iteration_count ]),
        !.current_draft = content]

add_drafter_note(s) ==
    [s EXCEPT
        !.drafter_notes    = Append(@, [iteration |-> s.iteration_count]),
        !.sp_drafter_notes = Append(@, [iteration |-> s.iteration_count])]

\* a drafter step that forgets to count the iteration
keep_iteration(s) == s

increment_iteration(s) ==
    [s EXCEPT !.iteration_count = @ + 1]

\* penalty of one flag, in hundredths
Penalty(flag) ==
    CASE flag.severity.value = "high"   -> 30
      [] flag.severity.value = "medium" -> 15
      [] flag.severity.value = "low"    -> 5
      [] OTHER                          -> 0

RECURSIVE PenaltySum(_)
PenaltySum(flags) ==
    IF flags = <<>> THEN 0
    ELSE Penalty(Head(flags)) + PenaltySum(Tail(flags))

\* a score without the floor at zero
update_from_safety_unfloored(flags) ==
    IF flags = <<>> THEN 100 ELSE 100 - PenaltySum(flags)

\* MetadataScores.update_from_safety
update_from_safety(flags) ==
    IF flags = <<>> THEN 100
    ELSE IF 100 - PenaltySum(flags) > 0 THEN 100 - PenaltySum(flags) ELSE 0

\* a recording that puts the new flag at the head of the lists
add_safety_flag_first(s, severity, issue, recommendation) ==
    LET flag == [ iteration      |-> s.iteration_count,
                  severity       |-> StoredSeverity(severity),
                  issue          |-> issue,
                  recommendation |-> recommendation ]
        dump == [ iteration      |-> s.iteration_count,
                  severity       |-> severity,
                  issue          |-> issue,
                  recommendation |-> recommendation ]
        flags == <<flag>> \o s.safety_flags
    IN  [s EXCEPT
            !.safety_flags    = flags,
            !.sp_safety_flags = <<dump>> \o @,
            !.safety_score    = update_from_safety(flags)]

add_safety_flag(s, severity, issue, recommendation) ==
    LET flag == [ iteration      |-> s.iteration_count,
                  severity       |-> StoredSeverity(severity),
                  issue          |-> issue,
                  recommendation |-> recommendation ]
        dump == [ iteration      |-> s.iteration_count,
                  severity       |-> severity,
                  issue          |-> issue,
                  recommendation |-> recommendation ]
        flags == Append(s.safety_flags, flag)
    IN  [s EXCEPT
            !.safety_flags    = flags,
            !.sp_safety_flags = Append(@, dump),
            !.safety_score    = update_from_safety(flags)]

add_critic_feedback(s, overall_score, recommendation) ==
    LET fb == [ iteration      |-> s.iteration_count,
                overall_score  |-> overall_score,
                recommendation |-> recommendation ]
    IN  [s EXCEPT
            !.critic_feedbacks      = Append(@, fb),
            !.sp_critic_feedback    = Append(@, fb),
            !.overall_quality_score = overall_score]

add_supervisor_decision(s, action) ==
    LET d == [iteration |-> s.iteration_count, action |-> action]
    IN  [s EXCEPT
            !.supervisor_decisions    = Append(@, d),
            !.sp_supervisor_decisions = Append(@, d)]

halt_for_human_review(s) ==
    [s EXCEPT
        !.should_halt         = TRUE,
        !.halted_at_iteration = s.iteration_count,
        !.approval_status     = "pending_human_review"]

\* an approval that records the draft and the status but does not finalize
approve_without_finalizing(s, edited_draft) ==
    IF edited_draft # ""
    THEN [s EXCEPT
            !.human_edited_draft   = edited_draft,
            !.final_approved_draft = edited_draft,
            !.approval_status      = "edited"]
    ELSE [s EXCEPT
            !.final_approved_draft = s.current_draft,
            !.approval_status      = "approved"]

\* approve(edited_draft): "" stands for None (both are falsy)
approve(s, edited_draft) ==
    IF edited_draft # ""
    THEN [s EXCEPT
            !.human_edited_draft   = edited_draft,
            !.final_approved_draft = edited_draft,
            !.approval_status      = "edited",
            !.is_finalized         = TRUE]
    ELSE [s EXCEPT
            !.final_approved_draft = s.current_draft,
            !.approval_status      = "approved",
            !.is_finalized         = TRUE]

reject(s, feedback) ==
    [s EXCEPT
        !.human_feedback  = feedback,
        !.approval_status = "rejected",
        !.needs_revision  = TRUE,
        !.should_halt     = FALSE]

add_error(s, error_type, agent) ==
    [s EXCEPT !.errors = Append(@,
        [ iteration  |-> s.iteration_count,
          error_type |-> error_type,
          agent      |-> agent ])]

----------------------------------------------------------------------------
(* SupervisorAgent (agents/supervisor.py) *)

Last(seq) == seq[Len(seq)]

has_recent_safety_check(s) ==
    /\ s.sp_safety_checks # <<>>
    /\ Last(s.sp_safety_checks).iteration = s.iteration_count

\* a quality check counted as recent whatever its iteration
has_any_quality_check(s) == s.sp_critic_feedback # <<>>

has_recent_quality_check(s) ==
    /\ s.sp_critic_feedback # <<>>
    /\ Last(s.sp_critic_feedback).iteration = s.iteration_count

\* "UNSAFE" in str(latest_flag) or "HIGH" in str(latest_flag): the dumped
\* flag holds the severity value in lower case, so only the texts of the
\* issue and of the recommendation count
LatestFlagCritical(s) ==
    /\ s.sp_safety_flags # <<>>
    /\ LET latest_flag == Last(s.sp_safety_flags)
       IN  \/ ContainsUNSAFE(latest_flag.issue)
           \/ ContainsHIGH(latest_flag.issue)
           \/ ContainsUNSAFE(latest_flag.recommendation)
           \/ ContainsHIGH(latest_flag.recommendation)

\* self.max_iterations = settings.max_agent_iterations
supervisor_max_iterations == max_agent_iterations

decide_next_action(s) ==
    IF s.iteration_count >= supervisor_max_iterations THEN "max_iterations_reached"
    ELSE IF s.iteration_count = 0 THEN "run_drafter"
    ELSE IF s.current_draft = "" THEN "run_drafter"
    ELSE IF ~has_recent_safety_check(s) THEN "run_safety"
    ELSE IF ~has_recent_quality_check(s) THEN "run_critic"
    ELSE IF LatestFlagCritical(s) THEN "run_drafter"
    ELSE IF s.sp_critic_feedback # <<>>
    THEN LET latest == Last(s.sp_critic_feedback)
         IN  IF ContainsMAJOR(latest.recommendation) THEN "run_drafter"
             ELSE IF latest.overall_score < quality_threshold
             THEN IF s.iteration_count < supervisor_max_iterations - 1
                  THEN "run_drafter"
                  ELSE "halt_for_human"
             ELSE "halt_for_human"
    ELSE "halt_for_human"

\* _record_decision: appends to the scratchpad only
record_decision(s, action) ==
    [s EXCEPT !.sp_supervisor_decisions = Append(@,
        [iteration |-> s.iteration_count, action |-> action])]

----------------------------------------------------------------------------
(* Routers (graph/edges.py) *)

\* state.safety_flags[-3:]
LastThree(seq) ==
    IF Len(seq) <= 3 THEN seq ELSE SubSeq(seq, Len(seq) - 2, Len(seq))

has_blocking_safety(s) ==
    \E i \in DOMAIN LastThree(s.safety_flags) :
        /\ HasValueAttr(LastThree(s.safety_flags)[i].severity)
        /\ LastThree(s.safety_flags)[i].severity.value = "high"

routing_map(decision) ==
    CASE decision = "run_drafter"            -> "drafter"
      [] decision = "run_safety"             -> "safety_guardian"
      [] decision = "run_critic"             -> "clinical_critic"
      [] decision = "halt_for_human"         -> "halt"
      [] decision = "max_iterations_reached" -> "max_iterations"
      [] OTHER                               -> "halt"

\* the bypass block at the head of supervisor_router
BypassFinalize(s) ==
    /\ s.bypass_halt
    /\ s.current_draft # ""
    /\ s.iteration_count > 0
    /\ Len(s.safety_flags) > 0
    /\ Len(s.critic_feedbacks) > 0
    /\ \/ /\ Last(s.critic_feedbacks).overall_score >= 75
          /\ ~has_blocking_safety(s)
       \/ s.iteration_count >= s.max_iterations

supervisor_router(s) ==
    IF BypassFinalize(s) THEN "finalize"
    ELSE IF s.should_halt \/ s.is_finalized THEN "halt"
    ELSE IF s.bypass_halt /\ decide_next_action(s) = "halt_for_human"
         THEN "finalize"
         ELSE routing_map(decide_next_action(s))

\* human_decision_router: the node it returns
human_decision_router(s) ==
    IF s.approval_status \in {"approved", "edited"} THEN "finalize"
    ELSE IF s.approval_status = "rejected" THEN "drafter"
    ELSE "finalize"

\* human_decision_router: the state it leaves (the rejected branch clears
\* should_halt and sets needs_revision)
human_decision_router_state(s) ==
    IF s.approval_status = "rejected"
    THEN [s EXCEPT !.should_halt = FALSE, !.needs_revision = TRUE]
    ELSE s

LastErrorAgent(s) ==
    IF s.errors = <<>> THEN "none" ELSE Last(s.errors).agent

\* a router that takes an empty error log for a drafter failure
after_drafter_router_inverted(s) ==
    IF s.errors = <<>> THEN "error" ELSE "supervisor"

after_drafter_router(s) ==
    IF LastErrorAgent(s) = "drafter" THEN "error" ELSE "supervisor"

after_safety_router(s) ==
    IF LastErrorAgent(s) = "safety_guardian" THEN "error" ELSE "supervisor"

after_critic_router(s) ==
    IF LastErrorAgent(s) = "clinical_critic" THEN "error" ELSE "supervisor"

----------------------------------------------------------------------------
(* Nodes (graph/nodes.py) and the graph (graph/workflow.py) *)

\* keys of the path map of the supervisor's conditional edge
SupervisorPathMap ==
    {"drafter", "safety_guardian", "clinical_critic", "halt", "max_iterations"}

Workers == {"drafter", "safety_guardian", "clinical_critic"}

\* an initialization that starts the decision log afresh
initialize_fresh(s) ==
    [s EXCEPT
        !.supervisor_decisions    =
            <<[iteration |-> s.iteration_count, action |-> "initialize"]>>,
        !.sp_supervisor_decisions =
            <<[iteration |-> s.iteration_count, action |-> "initialize"]>>]

initialize_node(s) == add_supervisor_decision(s, "initialize")

supervisor_node(s) == record_decision(s, decide_next_action(s))

drafter_node(s, content) ==
    increment_iteration(add_drafter_note(add_draft_version(s, content)))

\* severity parsed from the flag text
ParseSeverity(text) ==
    IF UpperContainsHIGH(text) THEN "high"
    ELSE IF UpperContainsLOW(text) THEN "low"
    ELSE "medium"

\* response.suggestions[0] if response.suggestions else "Review and revise"
FlagRecommendation(response) ==
    IF response.suggestions # <<>> THEN response.suggestions[1]
    ELSE "Review and revise"

RECURSIVE AddFlags(_, _, _)
AddFlags(s, flags, recommendation) ==
    IF flags = <<>> THEN s
    ELSE AddFlags(add_safety_flag(s, ParseSeverity(Head(flags)), Head(flags),
                                  recommendation),
                  Tail(flags), recommendation)

safety_guardian_node(s, response) ==
    LET s1 == AddFlags(s, response.flags, FlagRecommendation(response))
    IN  [s1 EXCEPT !.sp_safety_checks = Append(@,
            [iteration   |-> s1.iteration_count,
             flags_count |-> Len(response.flags)])]

clinical_critic_node(s, fb) ==
    add_critic_feedback(s, fb.overall_score, fb.recommendation)

\* a halt node that approves the draft it halts
halt_node_approving(s) == approve(halt_for_human_review(s), "")

halt_node(s) == halt_for_human_review(s)

finalize_node(s) ==
    IF s.is_finalized THEN s
    ELSE approve(s, s.human_edited_draft)

error_node(s) ==
    IF s.should_halt THEN s ELSE halt_for_human_review(s)

max_iterations_node(s) ==
    halt_for_human_review(add_error(s, "max_iterations", "supervisor"))

----------------------------------------------------------------------------
(* Control plane (api/routes.py, api/dependencies.py) *)

NoResponse == [kind |-> "none", op |-> "none", state |-> <<>>]

\* StateResponse / GenerationResponse built from the final state
StateResponse(op, s) == [kind |-> "state", op |-> op, state |-> <<s>>]

\* HTTPException(status_code=...)
HttpError(code, op) == [kind |-> code, op |-> op, state |-> <<>>]

NoRun == [kind |-> "none", decisions |-> <<>>, raised |-> "none",
          iteration0 |-> 0, versions0 |-> 0]

NewRun(kind, s) ==
    [kind |-> kind, decisions |-> <<>>, raised |-> "none",
     iteration0 |-> s.iteration_count, versions0 |-> Len(s.draft_versions)]

\* the operation whose handler waits for the current run
RunOp == IF run.kind = "start" THEN "generate" ELSE "reject"

\* no second run has been started
NoOther == [tid |-> "none", pc |-> "idle", st |-> <<>>, cp |-> <<>>]

\* StreamEvent: its event_type and agent
StreamEvent(event_type, agent) == [event_type |-> event_type, agent |-> agent]

\* create_stream_event: the event of a node that completed
create_stream_event(node_name) ==
    StreamEvent(CASE node_name = "drafter" -> "draft_update"
                  [] node_name \in {"safety_guardian", "clinical_critic"} -> "agent_end"
                  [] node_name = "halt" -> "halt"
                  [] node_name = "finalize" -> "complete"
                  [] node_name = "error" -> "error"
                  [] OTHER -> "agent_start",
                node_name)

\* the body of stream_workflow_events' loop for one update of astream: the
\* node's event, then a completion event if the state it returned is
\* halted or finalized; the break leaves the loop over that one update only
StreamUpdate(node_name, s) ==
    <<create_stream_event(node_name)>> \o
    (IF s.should_halt \/ s.is_finalized
     THEN <<StreamEvent(IF s.is_finalized THEN "complete" ELSE "halt", "system")>>
     ELSE <<>>)

\* a run driven by stream_workflow_events yields events; ainvoke yields none
Streamed == run.kind = "stream"

\* resume_workflow's gate: 400 unless should_halt or pending_human_review
\* a gate that also lets a thread whose status is still pending through
IsHaltedOrPending(s) ==
    s.should_halt \/ s.approval_status \in {"pending_human_review", "pending"}

IsHalted(s) ==
    s.should_halt \/ s.approval_status = "pending_human_review"

\* no graph run is executing for the thread
Quiescent == cp # <<>> /\ pc \in {"END", "failed"}

Init ==
    /\ st = <<>>
    /\ cp = <<>>
    /\ pc = "idle"
    /\ ret = NoResponse
    /\ run = NoRun
    /\ rejects = 0
    /\ events = <<>>
    /\ other = NoOther

\* generate_protocol: build the initial state and ainvoke the graph; the
\* input is checkpointed before the entry point runs
Start(budget, bypass) ==
    /\ pc = "idle"
    /\ cp = <<>>
    /\ st' = <<ProtocolState(budget, bypass)>>
    /\ cp' = st'
    /\ pc' = "initialize"
    /\ run' = NewRun("start", ProtocolState(budget, bypass))
    /\ UNCHANGED <<ret, rejects, events, other>>

\* a node returned: its state is written to the channels and checkpointed
Completed(s, next) ==
    /\ st' = <<s>>
    /\ cp' = <<s>>
    /\ pc' = next
    /\ events' = IF Streamed THEN events \o StreamUpdate(pc, s) ELSE events
    /\ UNCHANGED other

\* the graph reached END: ainvoke returns the final state to the handler
Finished(s) ==
    /\ st' = <<>>
    /\ cp' = <<s>>
    /\ pc' = "END"
    /\ ret' = IF Streamed THEN NoResponse ELSE StateResponse(RunOp, s)
    /\ events' = IF Streamed THEN events \o StreamUpdate(pc, s) ELSE events
    /\ UNCHANGED other

\* a node or its conditional edge raised: the step's writes are dropped,
\* ainvoke raises and the handler answers HTTP 500; astream raises into
\* stream_workflow_events, which yields an error event and ends
Raised(who) ==
    /\ st' = <<>>
    /\ pc' = "failed"
    /\ run' = [run EXCEPT !.raised = who]
    /\ ret' = IF Streamed THEN NoResponse ELSE HttpError("http500", RunOp)
    /\ events' = IF Streamed
                 THEN Append(events, StreamEvent("error", "system"))
                 ELSE events
    /\ UNCHANGED <<cp, rejects, other>>

InitializeNode ==
    /\ pc = "initialize"
    /\ Completed(initialize_node(st[1]), "supervisor")
    /\ UNCHANGED <<ret, run, rejects>>

\* supervisor node, then the conditional edge supervisor_router on its result
SupervisorNode ==
    /\ pc = "supervisor"
    /\ LET s1 == supervisor_node(st[1])
       IN  /\ supervisor_router(s1) \in SupervisorPathMap
           /\ Completed(s1, supervisor_router(s1))
    /\ run' = [run EXCEPT !.decisions = Append(@, decide_next_action(st[1]))]
    /\ UNCHANGED <<ret, rejects>>

\* supervisor_router returned a name the path map does not hold
SupervisorRouteKeyError ==
    /\ pc = "supervisor"
    /\ supervisor_router(supervisor_node(st[1])) \notin SupervisorPathMap
    /\ Raised("supervisor_router")

\* number of draft versions with empty content
EmptyVersions(s) ==
    Cardinality({i \in DOMAIN s.draft_versions : s.draft_versions[i].content = ""})

DrafterNode ==
    /\ pc = "drafter"
    /\ \E content \in Contents :
        /\ content = "" =>
             EmptyVersions(st[1]) < MaxEmptyDrafts
        /\ LET s1 == drafter_node(st[1], content)
           IN  Completed(s1, after_drafter_router(s1))
    /\ UNCHANGED <<ret, run, rejects>>

SafetyGuardianNode ==
    /\ pc = "safety_guardian"
    /\ \E response \in SafetyResponses :
        /\ Len(st[1].safety_flags) + Len(response.flags) <= MaxFlags
        /\ LET s1 == safety_guardian_node(st[1], response)
           IN  Completed(s1, after_safety_router(s1))
    /\ UNCHANGED <<ret, run, rejects>>

ClinicalCriticNode ==
    /\ pc = "clinical_critic"
    /\ \E fb \in Feedbacks :
        LET s1 == clinical_critic_node(st[1], fb)
        IN  Completed(s1, after_critic_router(s1))
    /\ UNCHANGED <<ret, run, rejects>>

\* agent.process raised: the except branch calls add_error on the node's
\* own copy of the state and re-raises
WorkerRaises ==
    /\ pc \in Workers
    /\ Raised(pc)

MaxIterationsNode ==
    /\ pc = "max_iterations"
    /\ Completed(max_iterations_node(st[1]), "halt")
    /\ UNCHANGED <<ret, run, rejects>>

HaltNode ==
    /\ pc = "halt"
    /\ Finished(halt_node(st[1]))
    /\ UNCHANGED <<run, rejects>>

\* resume_workflow on a thread that is not halted: HTTP 400
ResumeNotHalted ==
    /\ Quiescent
    /\ ~IsHalted(cp[1])
    /\ ret' = HttpError("http400", "resume")
    /\ UNCHANGED <<st, cp, pc, run, rejects, events, other>>

\* action "approve": state.approve() on the state read from the checkpoint
ResumeApprove ==
    /\ Quiescent
    /\ IsHalted(cp[1])
    /\ ret' = StateResponse("approve", approve(cp[1], ""))
    /\ UNCHANGED <<st, cp, pc, run, rejects, events, other>>

\* action "edit": 400 without edited_draft, else state.approve(edited_draft)
ResumeEdit(edited_draft) ==
    /\ Quiescent
    /\ IsHalted(cp[1])
    /\ ret' = IF edited_draft = ""
              THEN HttpError("http400", "edit")
              ELSE StateResponse("edit", approve(cp[1], edited_draft))
    /\ UNCHANGED <<st, cp, pc, run, rejects, events, other>>

\* a reject that is applied and persisted before the feedback is checked
ResumeRejectUnchecked ==
    /\ Quiescent
    /\ IsHalted(cp[1])
    /\ ret' = HttpError("http400", "reject")
    /\ cp' = <<reject(cp[1], "")>>
    /\ UNCHANGED <<st, pc, run, rejects, events, other>>

\* action "reject" without feedback: HTTP 400
ResumeRejectInvalid ==
    /\ Quiescent
    /\ IsHalted(cp[1])
    /\ ret' = HttpError("http400", "reject")
    /\ UNCHANGED <<st, cp, pc, run, rejects, events, other>>

\* action "reject": state.reject(feedback), then ainvoke(state) on the thread
ResumeReject(feedback) ==
    /\ Quiescent
    /\ IsHalted(cp[1])
    /\ feedback # ""
    /\ rejects < MaxRejects
    /\ st' = <<reject(cp[1], feedback)>>
    /\ cp' = st'
    /\ pc' = "initialize"
    /\ run' = NewRun("reject", cp[1])
    /\ ret' = NoResponse
    /\ rejects' = rejects + 1
    /\ UNCHANGED <<events, other>>

Next ==
    \/ \E budget \in Budgets, bypass \in BOOLEAN : Start(budget, bypass)
    \/ InitializeNode
    \/ SupervisorNode
    \/ SupervisorRouteKeyError
    \/ DrafterNode
    \/ SafetyGuardianNode
    \/ ClinicalCriticNode
    \/ WorkerRaises
    \/ MaxIterationsNode
    \/ HaltNode
    \/ ResumeNotHalted
    \/ ResumeApprove
    \/ \E edited_draft \in EditedDrafts : ResumeEdit(edited_draft)
    \/ ResumeRejectInvalid
    \/ \E feedback \in FeedbackTexts : ResumeReject(feedback)

Spec == Init /\ [][Next]_vars

\* one step of the graph run in progress
RunStep ==
    \/ InitializeNode
    \/ SupervisorNode
    \/ SupervisorRouteKeyError
    \/ DrafterNode
    \/ SafetyGuardianNode
    \/ ClinicalCriticNode
    \/ WorkerRaises
    \/ MaxIterationsNode
    \/ HaltNode

\* ainvoke drives the run to its end: while a run is in progress its next
\* node is executed, and every worker call returns or raises
FairSpec == Spec /\ WF_vars(RunStep)

\* Flag-history specification: interactive threads of budget 3 whose safety
\* checks may report several flags, in one check or over several iterations

\* response.flags of a check with rating UNSAFE and one low issue: the
\* rating flag comes first
FlagHistoryResponses ==
    { [flags |-> <<>>, suggestions |-> <<>>],
      [flags |-> <<"low concern: wording">>, suggestions |-> <<>>],
      [flags |-> <<"HIGH risk: self-harm content">>, suggestions |-> <<>>],
      [flags |-> <<"SAFETY_RATING: UNSAFE", "low concern: wording">>,
       suggestions |-> <<>>] }

FlagHistorySafetyNode ==
    /\ pc = "safety_guardian"
    /\ \E response \in FlagHistoryResponses :
        /\ Len(st[1].safety_flags) + Len(response.flags) <= MaxHistoryFlags
        /\ LET s1 == safety_guardian_node(st[1], response)
           IN  Completed(s1, after_safety_router(s1))
    /\ UNCHANGED <<ret, run, rejects>>

FlagHistoryNext ==
    \/ Start(3, FALSE)
    \/ InitializeNode
    \/ SupervisorNode
    \/ DrafterNode
    \/ FlagHistorySafetyNode
    \/ ClinicalCriticNode
    \/ WorkerRaises
    \/ MaxIterationsNode
    \/ HaltNode
    \/ ResumeNotHalted
    \/ ResumeApprove
    \/ \E edited_draft \in EditedDrafts : ResumeEdit(edited_draft)
    \/ ResumeRejectInvalid
    \/ \E feedback \in FeedbackTexts : ResumeReject(feedback)

FlagHistorySpec == Init /\ [][FlagHistoryNext]_vars

\* Streaming specification: runs driven by stream_workflow_events

\* stream_workflow_events: yield the start event, then drive the graph with
\* astream on the initial state
StreamStart(budget, bypass) ==
    /\ pc = "idle"
    /\ cp = <<>>
    /\ st' = <<ProtocolState(budget, bypass)>>
    /\ cp' = st'
    /\ pc' = "initialize"
    /\ run' = NewRun("stream", ProtocolState(budget, bypass))
    /\ events' = <<StreamEvent("start", "system")>>
    /\ UNCHANGED <<ret, rejects, other>>

StreamNext ==
    \/ \E budget \in Budgets, bypass \in BOOLEAN : StreamStart(budget, bypass)
    \/ InitializeNode
    \/ SupervisorNode
    \/ SupervisorRouteKeyError
    \/ DrafterNode
    \/ SafetyGuardianNode
    \/ ClinicalCriticNode
    \/ WorkerRaises
    \/ MaxIterationsNode
    \/ HaltNode

StreamSpec == Init /\ [][StreamNext]_vars

\* the nodes a run can be at
Nodes ==
    {"initialize", "supervisor", "drafter", "safety_guardian",
     "clinical_critic", "halt", "max_iterations"}

\* Second run: a run that executes at the same time as the run of st and pc,
\* on the same thread (a resume accepted while the thread's run executes) or
\* on another thread (another generate call)

ThreadIds == {"thread-1", "thread-2"}

\* the thread of st, cp and pc
ThisThread == "thread-1"

\* str(uuid4()): an id no thread has
uuid4_reused(used) == ThisThread

uuid4(used) == CHOOSE t \in ThreadIds : t \notin used

\* worker outputs of the second run
OtherContents == {"draft B"}

OtherFeedbacks == {[overall_score |-> 82, recommendation |-> "APPROVE"]}

\* the states a node can return for the second run, each with the node the
\* edges lead to
OtherSuccessors(node, s) ==
    CASE node = "initialize" -> {<<initialize_node(s), "supervisor">>}
      [] node = "supervisor" ->
            {<<supervisor_node(s), supervisor_router(supervisor_node(s))>>}
      [] node = "drafter" ->
            {<<drafter_node(s, c), after_drafter_router(drafter_node(s, c))>> :
                c \in OtherContents}
      [] node = "safety_guardian" ->
            LET s1 == safety_guardian_node(s, [flags |-> <<>>, suggestions |-> <<>>])
            IN  {<<s1, after_safety_router(s1)>>}
      [] node = "clinical_critic" ->
            {<<clinical_critic_node(s, fb),
               after_critic_router(clinical_critic_node(s, fb))>> :
                fb \in OtherFeedbacks}
      [] node = "max_iterations" -> {<<max_iterations_node(s), "halt">>}
      [] node = "halt" -> {<<halt_node(s), "END">>}

\* generate_protocol for another request: a new thread id, its own initial
\* state, and ainvoke under that id; the checkpointer writes under
\* config["configurable"]["thread_id"]
OtherStart ==
    /\ other = NoOther
    /\ LET tid == uuid4({ThisThread})
           s == ProtocolState(3, FALSE)
       IN  /\ cp' = IF tid = ThisThread THEN <<s>> ELSE cp
           /\ other' = [tid |-> tid, pc |-> "initialize", st |-> <<s>>,
                        cp |-> IF tid = ThisThread THEN <<>> ELSE <<s>>]
    /\ UNCHANGED <<st, pc, ret, run, rejects, events>>

\* resume_workflow, action reject, arriving while the thread's run executes:
\* the gate reads the latest checkpoint only
OtherResumeReject(feedback) ==
    /\ other = NoOther
    /\ pc \in Nodes
    /\ cp # <<>>
    /\ IsHalted(cp[1])
    /\ feedback # ""
    /\ cp' = <<reject(cp[1], feedback)>>
    /\ other' = [tid |-> ThisThread, pc |-> "initialize", st |-> cp', cp |-> <<>>]
    /\ UNCHANGED <<st, pc, ret, run, rejects, events>>

\* resume_workflow, action reject, on the other thread once its run has
\* halted: state.reject(feedback), then ainvoke(state) under its thread id;
\* explored for the thread's first feedback
OtherReject(feedback) ==
    /\ other.tid \notin {"none", ThisThread}
    /\ other.pc = "END"
    /\ IsHalted(other.cp[1])
    /\ other.cp[1].human_feedback = ""
    /\ feedback # ""
    /\ other' = [other EXCEPT !.pc = "initialize",
                              !.st = <<reject(other.cp[1], feedback)>>,
                              !.cp = <<reject(other.cp[1], feedback)>>]
    /\ UNCHANGED <<st, cp, pc, ret, run, rejects, events>>

\* a node of the second run returned and its state is checkpointed
OtherStep ==
    /\ other.pc \in Nodes
    /\ \E r \in OtherSuccessors(other.pc, other.st[1]) :
        /\ cp' = IF other.tid = ThisThread THEN <<r[1]>> ELSE cp
        /\ other' = [other EXCEPT
                        !.pc = r[2],
                        !.st = IF r[2] = "END" THEN <<>> ELSE <<r[1]>>,
                        !.cp = IF other.tid = ThisThread THEN @ ELSE <<r[1]>>]
    /\ UNCHANGED <<st, pc, ret, run, rejects, events>>

\* Overlap specification: interactive threads and resume(reject) requests
\* that arrive during a run
OverlapNext ==
    \/ \E budget \in Budgets : Start(budget, FALSE)
    \/ InitializeNode
    \/ SupervisorNode
    \/ DrafterNode
    \/ SafetyGuardianNode
    \/ ClinicalCriticNode
    \/ WorkerRaises
    \/ MaxIterationsNode
    \/ HaltNode
    \/ \E feedback \in FeedbackTexts : OtherResumeReject(feedback)
    \/ OtherStep

OverlapSpec == Init /\ [][OverlapNext]_vars

\* Two-thread specification: an interactive thread of budget 3 with the
\* resume calls approve and reject, and a second thread, started at any
\* time, that can be rejected
\* the safety guardian of the first thread finds nothing to flag
QuietSafetyNode ==
    /\ pc = "safety_guardian"
    /\ LET s1 == safety_guardian_node(st[1], [flags |-> <<>>, suggestions |-> <<>>])
       IN  Completed(s1, after_safety_router(s1))
    /\ UNCHANGED <<ret, run, rejects>>

ThreadsNext ==
    \/ Start(3, FALSE)
    \/ InitializeNode
    \/ SupervisorNode
    \/ DrafterNode
    \/ QuietSafetyNode
    \/ ClinicalCriticNode
    \/ WorkerRaises
    \/ MaxIterationsNode
    \/ HaltNode
    \/ ResumeApprove
    \/ \E feedback \in FeedbackTexts : ResumeReject(feedback)
    \/ OtherStart
    \/ OtherStep
    \/ \E feedback \in FeedbackTexts : OtherReject(feedback)

ThreadsSpec == Init /\ [][ThreadsNext]_vars

\* Status specification: an interactive thread of budget 3 whose safety
\* checks find nothing, and get_state calls at any time

\* settings.database_url.replace("sqlite:///./", "")
DatabasePath == "cerina_protocol.db"

\* get_async_checkpointer: the database the runs write their checkpoints to
async_database == DatabasePath

\* a synchronous checkpointer on a database of its own
sync_database_private == ":memory:"

\* get_checkpointer: the database get_state reads
sync_database == DatabasePath

\* the thread's snapshot in a database; cp is what the runs have written
ReadCheckpoint(db) == IF db = async_database THEN cp ELSE <<>>

\* a read that answers with a new default state when the thread is unknown
get_current_state_default ==
    LET snapshot == ReadCheckpoint(sync_database)
    IN  IF snapshot = <<>>
        THEN StateResponse("get_state", ProtocolState(max_agent_iterations, FALSE))
        ELSE StateResponse("get_state", snapshot[1])

\* get_current_state, as get_state answers it: 404 if the snapshot is missing
\* or has no values, else the state rebuilt from the snapshot's values
get_current_state ==
    LET snapshot == ReadCheckpoint(sync_database)
    IN  IF snapshot = <<>>
        THEN HttpError("http404", "get_state")
        ELSE StateResponse("get_state",
                           [f \in DOMAIN snapshot[1] |-> snapshot[1][f]])

\* GET /state/{thread_id}
GetState ==
    /\ ret' = get_current_state
    /\ UNCHANGED <<st, cp, pc, run, rejects, events, other>>

StatusNext ==
    \/ Start(3, FALSE)
    \/ InitializeNode
    \/ SupervisorNode
    \/ DrafterNode
    \/ QuietSafetyNode
    \/ ClinicalCriticNode
    \/ WorkerRaises
    \/ MaxIterationsNode
    \/ HaltNode
    \/ GetState

StatusSpec == Init /\ [][StatusNext]_vars

\* no run reaches the finalize node or the error node: finalize is not in
\* the supervisor's path map, and no persisted error entry is tagged with a
\* worker
ReachableNodes ==
    /\ pc \in Nodes \cup {"idle", "END", "failed"}
    /\ pc \in Nodes <=> st # <<>>

\* a run executes initialize, then the supervisor and the node it routes
\* to, once per decision: it stays below the recursion limit, so ainvoke
\* never raises GraphRecursionError
RecursionLimitNotReached ==
    1 + 2 * Len(run.decisions) < recursion_limit

\* every run stops: the graph reaches END or ainvoke raises
RunTerminates == (pc \in Nodes) ~> (pc \in {"END", "failed"})

\* Resume specification: interactive threads of budget 3 whose resume
\* endpoint may be called at any time, also while the run is in progress

\* resume_workflow while the thread's run is in progress and the checkpoint
\* it reads is not halted: HTTP 400
ResumeDuringRun ==
    /\ cp # <<>>
    /\ pc \in Nodes
    /\ ~IsHalted(cp[1])
    /\ ret' = HttpError("http400", "resume")
    /\ UNCHANGED <<st, cp, pc, run, rejects, events, other>>

\* resume_workflow(approve) while the run is in progress and the checkpoint
\* it reads is halted already (max_iterations has returned, halt has not)
ResumeApproveDuringRun ==
    /\ cp # <<>>
    /\ pc \in Nodes
    /\ IsHalted(cp[1])
    /\ ret' = StateResponse("approve", approve(cp[1], ""))
    /\ UNCHANGED <<st, cp, pc, run, rejects, events, other>>

ResumeNext ==
    \/ Start(3, FALSE)
    \/ InitializeNode
    \/ SupervisorNode
    \/ DrafterNode
    \/ QuietSafetyNode
    \/ ClinicalCriticNode
    \/ WorkerRaises
    \/ MaxIterationsNode
    \/ HaltNode
    \/ ResumeNotHalted
    \/ ResumeApprove
    \/ \E edited_draft \in EditedDrafts : ResumeEdit(edited_draft)
    \/ ResumeRejectInvalid
    \/ \E feedback \in FeedbackTexts : ResumeReject(feedback)
    \/ ResumeDuringRun
    \/ ResumeApproveDuringRun

ResumeSpec == Init /\ [][ResumeNext]_vars

\* Score specification: add_safety_flag applied to one thread's state any
\* number of times, with new drafts and iterations in between

Severities == {"high", "medium", "low"}

ScoreInit ==
    /\ st = <<ProtocolState(3, FALSE)>>
    /\ cp = <<>>
    /\ pc = "idle"
    /\ ret = NoResponse
    /\ run = NoRun
    /\ rejects = 0
    /\ events = <<>>
    /\ other = NoOther

RecordSafetyFlag(severity) ==
    /\ Len(st[1].safety_flags) < MaxScoreFlags
    /\ st' = <<add_safety_flag(st[1], severity, "issue", "revise")>>
    /\ UNCHANGED <<cp, pc, ret, run, rejects, events, other>>

\* the drafter writes a new draft and the iteration advances
NewDraft ==
    /\ st[1].iteration_count < MaxScoreDrafts
    /\ st' = <<drafter_node(st[1], "draft A")>>
    /\ UNCHANGED <<cp, pc, ret, run, rejects, events, other>>

ScoreNext ==
    \/ \E severity \in Severities : RecordSafetyFlag(severity)
    \/ NewDraft

ScoreSpec == ScoreInit /\ [][ScoreNext]_vars

\* Well-behaved specification: runs on a fresh thread for every iteration
\* budget GenerationRequest accepts, with workers that always return

\* GenerationRequest.max_iterations: Field(default=5, ge=1, le=10)
max_iterations_ge == 1
max_iterations_le == 10

RequestBudgets == max_iterations_ge .. max_iterations_le

WellBehavedStep ==
    \/ InitializeNode
    \/ SupervisorNode
    \/ SupervisorRouteKeyError
    \/ DrafterNode
    \/ SafetyGuardianNode
    \/ ClinicalCriticNode
    \/ MaxIterationsNode
    \/ HaltNode

WellBehavedNext ==
    \/ \E budget \in RequestBudgets, bypass \in BOOLEAN : Start(budget, bypass)
    \/ InitializeNode
    \/ SupervisorNode
    \/ SupervisorRouteKeyError
    \/ DrafterNode
    \/ SafetyGuardianNode
    \/ ClinicalCriticNode
    \/ MaxIterationsNode
    \/ HaltNode

WellBehavedSpec == Init /\ [][WellBehavedNext]_vars /\ WF_vars(WellBehavedStep)

----------------------------------------------------------------------------
(* Claims *)

\* the states an observer can see: the running state, the checkpoint and
\* the state a control-plane call returned
VisibleStates ==
    {st[i] : i \in DOMAIN st} \cup {cp[i] : i \in DOMAIN cp}
        \cup {ret.state[i] : i \in DOMAIN ret.state}

HasHighFlag(s) ==
    \E i \in DOMAIN s.safety_flags : s.safety_flags[i].severity.value = "high"

HasHighFlagInWindow(s) ==
    \E i \in DOMAIN LastThree(s.safety_flags) :
        LastThree(s.safety_flags)[i].severity.value = "high"

\* C1: after reject(feedback) on a halted thread and resume, should_halt is
\* false, needs_revision is true, iteration_count is what it was at the
\* halt, and the first decision of the resumed run is run_drafter.
C1_RejectThenDraft ==
    run.kind = "reject" =>
        /\ pc = "initialize" =>
              /\ ~st[1].should_halt
              /\ st[1].needs_revision
              /\ st[1].iteration_count = run.iteration0
        /\ run.decisions # <<>> => run.decisions[1] = "run_drafter"

\* C2: a thread halted at iteration k < max_iterations with k draft
\* versions, resumed by reject, has k+1 draft versions and iteration_count
\* k+1 when the resumed run stops.
C2_RejectAddsVersion ==
    ( /\ run.kind = "reject"
      /\ pc = "END"
      /\ run.iteration0 < cp[1].max_iterations
      /\ run.versions0 = run.iteration0 )
    => /\ Len(cp[1].draft_versions) = run.versions0 + 1
       /\ cp[1].iteration_count = run.iteration0 + 1

\* C3: whenever iteration_count >= the thread's max_iterations the decision
\* is max_iterations_reached, so a thread never holds more drafts than its
\* budget.
C3_BudgetStopsDrafting ==
    \A s \in VisibleStates :
        /\ s.iteration_count >= s.max_iterations =>
              decide_next_action(s) = "max_iterations_reached"
        /\ Len(s.draft_versions) <= s.max_iterations

\* C4: the state is persisted after every step: during a run the checkpoint
\* is the state the last node returned, and after resume(approve) or
\* resume(edit) returned, the checkpoint is finalized with the status and
\* the final draft of the response.
C4_EveryStepPersisted ==
    /\ st # <<>> => cp = st
    /\ (ret.kind = "state" /\ ret.op \in {"approve", "edit"}) =>
          /\ cp[1].is_finalized
          /\ cp[1].approval_status = ret.state[1].approval_status
          /\ cp[1].final_approved_draft = ret.state[1].final_approved_draft

\* C5: when a worker node raises, the caller gets no exception: the run
\* goes to the error node and ends halted, pending_human_review, with an
\* error entry tagged with that node in the persisted state.
C5_WorkerErrorHalts ==
    run.raised \in Workers =>
        /\ pc # "failed"
        /\ ret.kind # "http500"
        /\ pc = "END" =>
              /\ cp[1].should_halt
              /\ cp[1].approval_status = "pending_human_review"
              /\ LastErrorAgent(cp[1]) = run.raised

\* C6: is_finalized implies a non-empty final approved draft and a status
\* of approved or edited, in every state a start, a node or a resume
\* produces.
C6_FinalizedHasDraft ==
    \A s \in VisibleStates :
        s.is_finalized =>
            /\ s.final_approved_draft # ""
            /\ s.approval_status \in {"approved", "edited"}

\* the gates of auto-finalize: a draft, a safety check and a quality check
\* recorded, latest score >= 7.5, no high safety flag
BypassGatesPass(s) ==
    /\ s.bypass_halt
    /\ s.current_draft # ""
    /\ s.sp_safety_checks # <<>>
    /\ s.critic_feedbacks # <<>>
    /\ Last(s.critic_feedbacks).overall_score >= 75
    /\ ~HasHighFlag(s)

\* C7: in bypass mode a run whose gates pass ends at finalize: finalized,
\* approved, final draft = current draft, never pending_human_review.
C7_BypassRunFinalizes ==
    ( /\ pc \in {"END", "failed"}
      /\ run.raised \notin Workers
      /\ BypassGatesPass(cp[1]) )
    => /\ pc = "END"
       /\ cp[1].is_finalized
       /\ cp[1].approval_status = "approved"
       /\ cp[1].final_approved_draft = cp[1].current_draft

\* C8: the bypass router returns finalize only where the decision table
\* returns halt_for_human or iteration_count >= max_iterations, and
\* otherwise routes like the non-bypass router.
C8_BypassOnlyAtHaltBoundary ==
    (pc = "supervisor" /\ st[1].bypass_halt) =>
        LET s  == supervisor_node(st[1])
            sn == [s EXCEPT !.bypass_halt = FALSE]
        IN  IF supervisor_router(s) = "finalize"
            THEN \/ decide_next_action(s) = "halt_for_human"
                 \/ s.iteration_count >= s.max_iterations
            ELSE supervisor_router(s) = supervisor_router(sn)

\* C9: in bypass mode with iteration_count < max_iterations the router does
\* not return finalize while one of the last three safety flags is high.
C9_NoFinalizeWithHighFlag ==
    ( /\ pc = "supervisor"
      /\ st[1].bypass_halt
      /\ st[1].iteration_count < st[1].max_iterations
      /\ HasHighFlagInWindow(st[1]) )
    => supervisor_router(supervisor_node(st[1])) # "finalize"

\* the end-to-end example: budget 3, interactive source, the first draft is
\* not empty, the safety check of iteration 1 records one low flag and the
\* quality check of iteration 1 returns 8.2 / APPROVE
C10_Scenario ==
    /\ cp # <<>>
    /\ run.kind = "start"
    /\ run.raised = "none"
    /\ cp[1].max_iterations = 3
    /\ ~cp[1].bypass_halt
    /\ cp[1].draft_versions # <<>>
    /\ cp[1].draft_versions[1].content # ""
    /\ Len(cp[1].safety_flags) = 1
    /\ cp[1].safety_flags[1].severity.value = "low"
    /\ cp[1].safety_flags[1].iteration = 1
    /\ cp[1].sp_safety_checks[1].flags_count = 1
    /\ cp[1].critic_feedbacks # <<>>
    /\ cp[1].critic_feedbacks[1] =
          [iteration |-> 1, overall_score |-> 82, recommendation |-> "APPROVE"]

\* C10: the end-to-end example decides run_drafter, run_safety, run_critic,
\* halt_for_human in that order and stops pending_human_review with
\* iteration_count 1, halted_at_iteration 1 and one draft version.
C10_EndToEndHalt ==
    (C10_Scenario /\ pc \in {"END", "failed", "halt"}) =>
        /\ pc # "failed"
        /\ run.decisions =
              <<"run_drafter", "run_safety", "run_critic", "halt_for_human">>
        /\ cp[1].iteration_count = 1
        /\ Len(cp[1].draft_versions) = 1
        /\ pc = "END" =>
              /\ cp[1].approval_status = "pending_human_review"
              /\ cp[1].should_halt
              /\ cp[1].halted_at_iteration = 1

\* current_draft, iteration_count and the history lists of a and b agree
SameHistory(a, b) ==
    /\ a.current_draft = b.current_draft
    /\ a.iteration_count = b.iteration_count
    /\ a.draft_versions = b.draft_versions
    /\ a.safety_flags = b.safety_flags
    /\ a.critic_feedbacks = b.critic_feedbacks
    /\ a.supervisor_decisions = b.supervisor_decisions
    /\ a.drafter_notes = b.drafter_notes
    /\ a.errors = b.errors

\* C11: approve() with no edited content gives is_finalized, final draft =
\* current draft and status approved; approve(edited) gives final draft =
\* the edited content, status edited and is_finalized; neither changes
\* current_draft, iteration_count or the history lists.  The state before
\* the call is the checkpoint the handler read, the state after it is the
\* one the handler returned.
C11_ApproveSetsFinalDraft ==
    (ret.kind = "state" /\ ret.op \in {"approve", "edit"}) =>
        LET before == cp[1]
            after  == ret.state[1]
        IN  /\ after.is_finalized
            /\ SameHistory(after, before)
            /\ ret.op = "approve" =>
                  /\ after.final_approved_draft = before.current_draft
                  /\ after.approval_status = "approved"
            /\ ret.op = "edit" =>
                  /\ after.final_approved_draft \in EditedDrafts \ {""}
                  /\ after.final_approved_draft = after.human_edited_draft
                  /\ after.approval_status = "edited"

\* C11 witness: an edit of a halted thread returned, with a final draft
\* that differs from the current draft
C11_Witness ==
    /\ ret.kind = "state"
    /\ ret.op = "edit"
    /\ ret.state[1].final_approved_draft # cp[1].current_draft
    /\ cp[1].draft_versions # <<>>

\* a high-severity flag recorded in the current iteration
HasHighFlagThisIteration(s) ==
    \E i \in DOMAIN s.safety_flags :
        /\ s.safety_flags[i].iteration = s.iteration_count
        /\ s.safety_flags[i].severity.value = "high"

\* rules 1-6 of the decision table do not apply: a draft exists, the safety
\* check and the quality check of the current iteration are recorded, no
\* high flag in the current iteration, latest recommendation not major
PastRuleSix(s) ==
    /\ s.iteration_count > 0
    /\ s.current_draft # ""
    /\ s.sp_safety_checks # <<>>
    /\ Last(s.sp_safety_checks).iteration = s.iteration_count
    /\ s.critic_feedbacks # <<>>
    /\ Last(s.critic_feedbacks).iteration = s.iteration_count
    /\ ~HasHighFlagThisIteration(s)
    /\ Last(s.critic_feedbacks).recommendation # "REQUEST_MAJOR_REVISIONS"

\* C12: past rule 6, a latest overall_score below 7.5 makes the decision
\* run_drafter when iteration_count < max_iterations - 1 and halt_for_human
\* when iteration_count = max_iterations - 1, max_iterations being the
\* thread's budget.
C12_LowScoreUsesThreadBudget ==
    ( /\ pc = "supervisor"
      /\ PastRuleSix(st[1])
      /\ Last(st[1].critic_feedbacks).overall_score < 75 )
    => /\ st[1].iteration_count < st[1].max_iterations - 1 =>
              decide_next_action(st[1]) = "run_drafter"
       /\ st[1].iteration_count = st[1].max_iterations - 1 =>
              decide_next_action(st[1]) = "halt_for_human"

\* C13: with 0 < iteration_count < max_iterations, past rule 6 and a latest
\* overall_score >= 7.5, the decision is halt_for_human.
C13_GoodScoreHalts ==
    ( /\ pc = "supervisor"
      /\ PastRuleSix(st[1])
      /\ st[1].iteration_count < st[1].max_iterations
      /\ Last(st[1].critic_feedbacks).overall_score >= 75 )
    => decide_next_action(st[1]) = "halt_for_human"

\* C14: every run started by start or resumed by reject eventually stops
\* in halt, finalize or error (the graph reaches END through one of them),
\* given that every worker call returns or raises.
C14_RunStopsInTerminalNode ==
    (pc = "initialize") ~> (pc = "END")

\* C15: iteration_count never decreases; a step raises it, by exactly 1,
\* exactly when it is a drafter step that appends a draft version; so the
\* number of draft versions equals iteration_count in every persisted and
\* every returned state.
C15_IterationCountsDrafts ==
    [][ /\ cp' # <<>> =>
              Len(cp'[1].draft_versions) = cp'[1].iteration_count
        /\ ret'.state # <<>> =>
              Len(ret'.state[1].draft_versions) = ret'.state[1].iteration_count
        /\ (cp # <<>> /\ cp' # <<>>) =>
              LET d == cp'[1].iteration_count - cp[1].iteration_count
                  v == Len(cp'[1].draft_versions) - Len(cp[1].draft_versions)
              IN  /\ d \in {0, 1}
                  /\ v = d
                  /\ d = 1 <=> (pc = "drafter" /\ pc' # "failed")
      ]_vars

\* C15 witness: a thread that was rejected and resumed holds several drafts
C15_Witness ==
    /\ run.kind = "reject"
    /\ pc = "END"
    /\ cp[1].iteration_count >= 2

IsPrefix(a, b) ==
    /\ Len(a) <= Len(b)
    /\ SubSeq(b, 1, Len(a)) = a

\* each history list of a is a prefix of the same list of b
HistoryKept(a, b) ==
    /\ IsPrefix(a.draft_versions, b.draft_versions)
    /\ IsPrefix(a.safety_flags, b.safety_flags)
    /\ IsPrefix(a.critic_feedbacks, b.critic_feedbacks)
    /\ IsPrefix(a.supervisor_decisions, b.supervisor_decisions)
    /\ IsPrefix(a.errors, b.errors)

\* C16: draft_versions, safety_flags, critic_feedbacks,
\* supervisor_decisions and errors are append-only across every node
\* execution and every resume action: the lists persisted before a step are
\* prefixes of the lists the step persists, runs on and returns.
C16_HistoryAppendOnly ==
    [][ cp # <<>> =>
          /\ cp' # <<>> /\ HistoryKept(cp[1], cp'[1])
          /\ st' # <<>> => HistoryKept(cp[1], st'[1])
          /\ ret'.state # <<>> => HistoryKept(cp[1], ret'.state[1])
      ]_vars

\* C16 witness: a thread with drafts, reviews and an error note was
\* rejected, and the resumed run has stopped
C16_Witness ==
    /\ run.kind = "reject"
    /\ pc = "END"
    /\ Len(cp[1].supervisor_decisions) >= 2
    /\ Len(cp[1].draft_versions) >= 2
    /\ cp[1].critic_feedbacks # <<>>
    /\ cp[1].errors # <<>>

\* C17: safety_flags is append-only and ordered by iteration, then by
\* insertion: a step only appends flags, every appended flag carries the
\* iteration_count of the state it was recorded in, and the iterations along
\* the list never decrease.
C17_FlagsOrderedByIteration ==
    [][ (cp # <<>> /\ cp' # <<>>) =>
          LET old == cp[1].safety_flags
              new == cp'[1].safety_flags
          IN  /\ IsPrefix(old, new)
              /\ \A i \in DOMAIN new :
                    /\ i > Len(old) => new[i].iteration = cp[1].iteration_count
                    /\ i > 1 => new[i - 1].iteration <= new[i].iteration
      ]_vars

\* C17 witness: flags recorded in two different iterations, kept across a
\* rejection and the resumed run
C17_Witness ==
    /\ run.kind = "reject"
    /\ pc = "END"
    /\ Len(cp[1].safety_flags) >= 2
    /\ cp[1].safety_flags[1].iteration < cp[1].safety_flags[2].iteration

\* C18: in every state, draft_versions[i].version_number = i + 1 for every
\* 0-based index i (sequences here are 1-based: the i-th version is
\* numbered i), also after halt, reject and resume.
C18_VersionNumbersGapFree ==
    \A s \in VisibleStates :
        \A i \in DOMAIN s.draft_versions :
            s.draft_versions[i].version_number = i

\* C18 witness: a rejected and resumed thread with several versions
C18_Witness ==
    /\ run.kind = "reject"
    /\ pc = "END"
    /\ Len(cp[1].draft_versions) >= 3

\* C19: resume(edit) without edited_draft and resume(reject) without
\* feedback return a validation error (HTTP 400) and leave the running
\* state, the checkpoint and the position of the thread as they were: the
\* thread is still halted.
C19_MalformedResumeRejected ==
    [][ (ret'.kind = "http400" /\ ret'.op \in {"edit", "reject"}) =>
          /\ cp' = cp
          /\ st' = st
          /\ pc' = pc
          /\ IsHalted(cp'[1])
      ]_vars

\* C19 witness: a reject without feedback was answered with HTTP 400
C19_Witness ==
    /\ ret.kind = "http400"
    /\ ret.op = "reject"
    /\ IsHalted(cp[1])
    /\ cp[1].draft_versions # <<>>

IsTerminalEvent(e) == e.agent = "system" /\ e.event_type \in {"halt", "complete"}

\* C21: the event stream of a run begins with the start event, and once the
\* run has stopped (at a halt, through max_iterations, or on an error) the
\* stream holds exactly one terminal halt/complete event, which is its last
\* event; while the run goes on no event follows a terminal event.
C21_OneTerminalEventLast ==
    Streamed =>
        /\ events[1] = StreamEvent("start", "system")
        /\ \A i \in 1..(Len(events) - 1) : ~IsTerminalEvent(events[i])
        /\ pc \in {"END", "failed"} => IsTerminalEvent(events[Len(events)])

\* the max_iterations path alone: a streamed run that stopped at END
\* yielded one terminal event
C21_MaxIterationsPath ==
    (Streamed /\ pc = "END") =>
        Cardinality({i \in DOMAIN events : IsTerminalEvent(events[i])}) = 1

\* a run of the thread of st and cp is executing nodes
ThisRunExecutes == pc \in Nodes

\* a second run on the same thread is executing nodes
SecondRunExecutes == other.tid = ThisThread /\ other.pc \in Nodes

\* C22: a thread never has two concurrent writers: whatever resume requests
\* the boundary accepts, at most one run of the thread is executing nodes
\* and writing its checkpoint at a time.
C22_OneWriterPerThread == ~(ThisRunExecutes /\ SecondRunExecutes)

\* C23: no state is shared between threads: a step that is an operation on
\* one thread (start, node execution, resume) leaves the running state and
\* the checkpoint of the other thread unchanged.
C23_ThreadsIsolated ==
    [][ \/ other' = other
        \/ UNCHANGED <<st, cp, pc, ret, run, rejects, events>> ]_vars

\* both threads have run and halted, each with its own draft
C23_Witness ==
    /\ other.tid = "thread-2"
    /\ other.pc = "END"
    /\ pc = "END"
    /\ cp[1].current_draft = "draft A"
    /\ other.cp[1].current_draft = "draft B"
    /\ ret.op = "approve"
    /\ other.cp[1].human_feedback # ""

\* a step in which get_state answered
GetStateAnswered == ret' # ret /\ ret'.op = "get_state"

C25_NotFoundIffNeverStarted ==
    [][ GetStateAnswered =>
            /\ cp = <<>> <=> ret'.kind = "http404"
            /\ cp' = cp ]_vars

\* get_state answered NotFound and the thread still has no state
C25_Witness ==
    /\ ret = HttpError("http404", "get_state")
    /\ cp = <<>>
    /\ pc = "idle"

\* C26: every action the decision engine returns is appended to the audit
\* log supervisor_decisions with the current iteration before it is
\* returned: when the supervisor has decided and the run moves on, the last
\* entry of supervisor_decisions holds that action and iteration.
C26_DecisionsAudited ==
    [][ (pc = "supervisor" /\ pc' \in Nodes) =>
            LET log == st'[1].supervisor_decisions
            IN  /\ log # <<>>
                /\ log[Len(log)] = [iteration |-> st[1].iteration_count,
                                    action    |-> decide_next_action(st[1])] ]_vars

\* a safety check and a quality check are recorded for the iteration of s
CheckedThisIteration(s) ==
    /\ \E i \in DOMAIN s.sp_safety_checks :
          s.sp_safety_checks[i].iteration = s.iteration_count
    /\ \E i \in DOMAIN s.sp_critic_feedback :
          s.sp_critic_feedback[i].iteration = s.iteration_count

\* C27 (as the code has it): halt_for_human is decided only in states where
\* a safety check and a quality check are recorded for the current
\* iteration, and the supervisor sends a draft to the quality check only
\* after the safety check of its iteration and to the safety check only
\* after the drafter has produced it.
C27_HaltDecisionAfterBothChecks ==
    [][ (pc = "supervisor" /\ pc' \in Nodes) =>
            /\ decide_next_action(st[1]) = "halt_for_human" =>
                  /\ CheckedThisIteration(st[1])
                  /\ pc' = "halt"
            /\ pc' = "clinical_critic" =>
                  \E i \in DOMAIN st[1].sp_safety_checks :
                      st[1].sp_safety_checks[i].iteration = st[1].iteration_count
            /\ pc' = "safety_guardian" =>
                  /\ st[1].iteration_count >= 1
                  /\ st[1].current_draft # ""
                  /\ Len(st[1].draft_versions) = st[1].iteration_count ]_vars

\* the supervisor halts a second draft after its safety and quality checks
C27_Witness ==
    /\ pc = "halt"
    /\ run.decisions # <<>>
    /\ run.decisions[Len(run.decisions)] = "halt_for_human"
    /\ st[1].iteration_count = 2
    /\ CheckedThisIteration(st[1])

\* C27 (as stated): a thread halts for review only after the safety check
\* and the quality check of its current iteration: every state that is
\* halted for review has both checks recorded for its iteration.
C27_HaltedThreadChecked ==
    \A s \in VisibleStates : s.should_halt => CheckedThisIteration(s)

\* the latest safety flag was recorded in the current iteration of s and has
\* severity high
LatestFlagHighThisIteration(s) ==
    /\ s.safety_flags # <<>>
    /\ Last(s.safety_flags).iteration = s.iteration_count
    /\ Last(s.safety_flags).severity.value = "high"

\* no safety flag was recorded in the current iteration of s
NoFlagThisIteration(s) ==
    \A i \in DOMAIN s.safety_flags : s.safety_flags[i].iteration # s.iteration_count

\* C28: with both checks recorded for the current iteration and
\* 0 < iteration_count < max_iterations, the decision is run_drafter
\* whenever the latest flag of the current iteration has severity high,
\* whatever its text; flags of older iterations do not trigger the rule: with
\* a draft, no flag in the current iteration and a latest feedback that is
\* not major and scores at least 7.5, the decision is halt_for_human.
C28_HighFlagRedrafts ==
    ( /\ pc = "supervisor"
      /\ CheckedThisIteration(st[1])
      /\ 0 < st[1].iteration_count
      /\ st[1].iteration_count < st[1].max_iterations )
    => /\ LatestFlagHighThisIteration(st[1]) =>
              decide_next_action(st[1]) = "run_drafter"
       /\ ( /\ NoFlagThisIteration(st[1])
            /\ st[1].current_draft # ""
            /\ ~ContainsMAJOR(Last(st[1].critic_feedbacks).recommendation)
            /\ Last(st[1].critic_feedbacks).overall_score >= quality_threshold )
          => decide_next_action(st[1]) = "halt_for_human"

\* first half of C28 alone: a high flag of the current iteration
C28_HighFlagAnyText ==
    ( /\ pc = "supervisor"
      /\ CheckedThisIteration(st[1])
      /\ 0 < st[1].iteration_count
      /\ st[1].iteration_count < st[1].max_iterations
      /\ LatestFlagHighThisIteration(st[1]) )
    => decide_next_action(st[1]) = "run_drafter"

\* second half of C28 alone: flags of older iterations only
C28_OldFlagIgnored ==
    ( /\ pc = "supervisor"
      /\ CheckedThisIteration(st[1])
      /\ 0 < st[1].iteration_count
      /\ st[1].iteration_count < st[1].max_iterations
      /\ NoFlagThisIteration(st[1])
      /\ st[1].current_draft # ""
      /\ ~ContainsMAJOR(Last(st[1].critic_feedbacks).recommendation)
      /\ Last(st[1].critic_feedbacks).overall_score >= quality_threshold )
    => decide_next_action(st[1]) = "halt_for_human"

\* C29: with both checks recorded for the current iteration,
\* 0 < iteration_count < max_iterations and no high flag as the latest flag
\* of the iteration, the decision is run_drafter whenever the latest
\* feedback recommends major revisions, whatever its overall_score and
\* however many iterations remain.
C29_MajorRedrafts ==
    ( /\ pc = "supervisor"
      /\ CheckedThisIteration(st[1])
      /\ 0 < st[1].iteration_count
      /\ st[1].iteration_count < st[1].max_iterations
      /\ ~LatestFlagHighThisIteration(st[1])
      /\ Last(st[1].critic_feedbacks).recommendation = "REQUEST_MAJOR_REVISIONS" )
    => decide_next_action(st[1]) = "run_drafter"

\* a major recommendation with a score above the threshold on the last
\* iteration of the budget sends the draft back
C29_Witness ==
    /\ pc = "supervisor"
    /\ CheckedThisIteration(st[1])
    /\ st[1].iteration_count = st[1].max_iterations - 1
    /\ st[1].safety_flags = <<>>
    /\ Last(st[1].critic_feedbacks).recommendation = "REQUEST_MAJOR_REVISIONS"
    /\ Last(st[1].critic_feedbacks).overall_score >= quality_threshold
    /\ decide_next_action(st[1]) = "run_drafter"

\* a step of a node that calls halt_for_human_review: the halt node or the
\* max_iterations node returned
HaltForHumanReviewCalled ==
    /\ pc \in {"halt", "max_iterations"}
    /\ pc' \in {"halt", "END"}
    /\ pc' # pc

\* C30: each transition of a thread into the halted state performs
\* halt_for_human_review exactly once: a node that calls it finds the thread
\* not yet halted, and leaves it halted with halted_at_iteration equal to
\* iteration_count, on the path from the supervisor to halt and on the path
\* through max_iterations.
C30_HaltWrittenOncePerHalt ==
    [][ HaltForHumanReviewCalled =>
            /\ ~st[1].should_halt
            /\ cp'[1].should_halt
            /\ cp'[1].halted_at_iteration = cp'[1].iteration_count ]_vars

\* C31: for a thread with bypass_halt = false, is_finalized becomes true
\* only through resume approve/edit applied to the halted thread: no run
\* reaches the finalize node, no state a run holds or checkpoints is
\* finalized, and a finalized state is the response of approve or edit on a
\* halted checkpoint.
C31_OnlyHumanFinalizes ==
    (cp # <<>> /\ ~cp[1].bypass_halt) =>
        /\ pc # "finalize"
        /\ \A i \in DOMAIN st : ~st[i].is_finalized
        /\ ~cp[1].is_finalized
        /\ (ret.kind = "state" /\ ret.state[1].is_finalized) =>
              /\ ret.op \in {"approve", "edit"}
              /\ IsHalted(cp[1])

\* approve on a thread that halted again after a reject
C31_Witness ==
    /\ cp # <<>>
    /\ ~cp[1].bypass_halt
    /\ run.kind = "reject"
    /\ pc = "END"
    /\ ret.op = "approve"
    /\ ret.kind = "state"
    /\ ret.state[1].is_finalized

\* C33: resume routing returns finalize only when the status is approved or
\* edited, and the drafter only when the status is rejected, then with
\* should_halt cleared and needs_revision set; a thread whose status is
\* still pending or pending_human_review is never routed to finalize.
C33_ResumeRouting ==
    \A s \in VisibleStates :
        /\ human_decision_router(s) = "finalize" =>
              s.approval_status \in {"approved", "edited"}
        /\ human_decision_router(s) = "drafter" =>
              /\ s.approval_status = "rejected"
              /\ ~human_decision_router_state(s).should_halt
              /\ human_decision_router_state(s).needs_revision

\* the last resume call finalized the thread
ThreadFinalized == ret.kind = "state" /\ ret.state[1].is_finalized

\* C34: once a thread is finalized, every later resume request is rejected
\* as not halted and nothing changes any more: after the response that
\* finalized it, the only further response is HTTP 400, the checkpoint stays
\* as it is and no run is started.
C34_FinalizedIsFinal ==
    [][ ThreadFinalized =>
            \/ UNCHANGED vars
            \/ /\ ret'.kind = "http400"
               /\ UNCHANGED <<st, cp, pc, run>> ]_vars

\* the declared state machine of the approval status, with staying put
DeclaredStatusStep(a, b) ==
    \/ a = b
    \/ a = "pending" /\ b = "pending_human_review"
    \/ a = "pending_human_review" /\ b \in {"approved", "edited", "rejected"}
    \/ a = "rejected" /\ b \in {"pending", "pending_human_review"}

\* C32: the approval status of a thread changes only along the declared
\* state machine: the persisted status from one checkpoint to the next, the
\* status a response reports with respect to the persisted one, and the
\* status reported from one response to the next; in particular approved and
\* edited are never left.
C32_StatusMachine ==
    [][ /\ (cp # <<>> /\ cp' # <<>>) =>
              DeclaredStatusStep(cp[1].approval_status, cp'[1].approval_status)
        /\ (cp # <<>> /\ ret' # ret /\ ret'.kind = "state") =>
              DeclaredStatusStep(cp[1].approval_status,
                                 ret'.state[1].approval_status)
        /\ (ret.kind = "state" /\ ret'.kind = "state") =>
              DeclaredStatusStep(ret.state[1].approval_status,
                                 ret'.state[1].approval_status) ]_vars

\* the persisted part of C32 alone: the status in the checkpoint
C32_PersistedStatusMachine ==
    [][ (cp # <<>> /\ cp' # <<>>) =>
            DeclaredStatusStep(cp[1].approval_status, cp'[1].approval_status) ]_vars

Iterations(list) == [i \in DOMAIN list |-> list[i].iteration]

Mirrors(scratchpad, typed) ==
    /\ Len(scratchpad) = Len(typed)
    /\ Iterations(scratchpad) = Iterations(typed)

\* C36: in every reachable state each scratchpad list mirrors its typed
\* list: scratchpad safety_flags, critic_feedback, supervisor_decisions and
\* drafter_notes have the same length and the same sequence of iterations as
\* the typed safety_flags, critic_feedbacks, supervisor_decisions and
\* drafter_notes.
C36_ScratchpadMirrorsTyped ==
    \A s \in VisibleStates :
        /\ Mirrors(s.sp_safety_flags, s.safety_flags)
        /\ Mirrors(s.sp_critic_feedback, s.critic_feedbacks)
        /\ Mirrors(s.sp_supervisor_decisions, s.supervisor_decisions)
        /\ Mirrors(s.sp_drafter_notes, s.drafter_notes)

\* the three lists that are written by the state's own methods only do
\* mirror each other
C36_WorkerListsMirror ==
    \A s \in VisibleStates :
        /\ Mirrors(s.sp_safety_flags, s.safety_flags)
        /\ Mirrors(s.sp_critic_feedback, s.critic_feedbacks)
        /\ Mirrors(s.sp_drafter_notes, s.drafter_notes)

\* a supervisor step that returned: the supervisor node and its router ran
\* and the run moved on to the next node
SupervisorStepReturned ==
    /\ pc = "supervisor"
    /\ pc' \notin {"supervisor", "failed"}
    /\ st # <<>> /\ st' # <<>>

\* C37: each execution of the supervisor step appends exactly one decision
\* record to the audit log (the typed supervisor_decisions list), and the
\* recorded action is the one that determines the next node.
C37_OneRecordPerStep ==
    [][ SupervisorStepReturned =>
            /\ Len(st'[1].supervisor_decisions) =
                   Len(st[1].supervisor_decisions) + 1
            /\ routing_map(Last(st'[1].supervisor_decisions).action) = pc'
      ]_vars

\* the scratchpad does get exactly one record per supervisor step
C37_OneScratchpadRecordPerStep ==
    [][ SupervisorStepReturned =>
            Len(st'[1].sp_supervisor_decisions) =
                Len(st[1].sp_supervisor_decisions) + 1 ]_vars

\* the record of the scratchpad names the node the router chose
C37_ScratchpadRecordRoutes ==
    [][ SupervisorStepReturned =>
            routing_map(Last(st'[1].sp_supervisor_decisions).action) = pc'
      ]_vars

C38_BelowRecursionLimit == 1 + 2 * Len(run.decisions) < recursion_limit

\* interactive runs do reach halt
C38_InteractiveRunReachesHalt ==
    (pc = "initialize" /\ ~st[1].bypass_halt) ~> (pc = "halt")

\* the checkpoint of the thread is not halted: should_halt is false and the
\* status is not pending_human_review
ThreadNotHalted ==
    /\ cp # <<>>
    /\ ~cp[1].should_halt
    /\ cp[1].approval_status # "pending_human_review"

\* a resume request was answered in this step, or it started a new run
ResumeAnswered ==
    \/ /\ ret' # ret
       /\ pc' = pc
       /\ ret'.op \in {"resume", "approve", "edit", "reject"}
    \/ /\ run' # run
       /\ run'.kind = "reject"
       /\ pc' = "initialize"

\* C39: resume on a thread that is not halted, a run still in progress
\* included, is rejected with an error and changes nothing in the thread's
\* state or checkpoint; a resume is accepted only when the thread is halted.
C39_ResumeNeedsHalt ==
    [][ (ResumeAnswered /\ ThreadNotHalted) =>
            /\ ret'.kind = "http400"
            /\ UNCHANGED <<st, cp, pc, run, rejects, events, other>> ]_vars

\* resume was refused while the drafter of the second iteration was running
C39_Witness ==
    /\ ret = HttpError("http400", "resume")
    /\ pc = "drafter"
    /\ st[1].iteration_count = 1
    /\ ThreadNotHalted

\* number of flags of one severity among all flags recorded for the thread
FlagCount(s, severity) ==
    Cardinality({i \in DOMAIN s.safety_flags :
                    s.safety_flags[i].severity.value = severity})

\* 1 - sum of penalties, in hundredths
ScoreBeforeFloor(s) ==
    100 - (30 * FlagCount(s, "high") + 15 * FlagCount(s, "medium")
             + 5 * FlagCount(s, "low"))

\* the score is max(0, 1 - sum of penalties); without flags it is 1
ScoreIsFlooredSum ==
    /\ st[1].safety_score =
           (IF ScoreBeforeFloor(st[1]) > 0 THEN ScoreBeforeFloor(st[1]) ELSE 0)
    /\ st[1].safety_score >= 0
    /\ (st[1].safety_flags = <<>> => st[1].safety_score = 100)

\* C40: after any sequence of add_safety_flag calls the safety score equals
\* max(0, 1 - sum of penalties) over all flags ever recorded (high 0.30,
\* medium 0.15, low 0.05, in hundredths): it starts at 1, never increases,
\* never goes below 0, and a new draft or iteration does not reset it.
C40_SafetyScore ==
    [](ScoreIsFlooredSum) /\ [][st'[1].safety_score <= st[1].safety_score]_vars

\* four high flags recorded over three iterations: the sum of penalties
\* exceeds 1 and the score rests at the floor
C40_Witness ==
    /\ Len(st[1].safety_flags) = 4
    /\ FlagCount(st[1], "high") = 4
    /\ st[1].safety_flags[1].iteration = 0
    /\ st[1].safety_flags[4].iteration = 2
    /\ st[1].safety_score = 0
====
